---- MODULE Spec2Model ----
(***************************************************************************)
(* A state-machine model of src/db.py, the SQLAlchemy tutorial script.     *)
(*                                                                         *)
(* The script is straight-line: the model keeps a program counter into     *)
(* Prog, the list of the script's database statements in source order, and *)
(* has one action per kind of statement.  The database is a committed      *)
(* store plus one working copy per open transaction; a connection or a     *)
(* session works on its copy and publishes it on commit.  Every statement  *)
(* that reaches the database may raise (section 7 of the specification:    *)
(* constraint violations and connection errors propagate as exceptions);   *)
(* an exception runs the exit handler of the enclosing with-block, if any, *)
(* and ends the script.                                                    *)
(***************************************************************************)
EXTENDS Integers, Sequences, FiniteSets, TLC

VARIABLES
    pc,             \* index into Prog of the next statement
    status,         \* "running", "done" (fell off the end) or "aborted" (exception)
    scope,          \* the with-block the script is in: "none", "connect", "begin", "session"
    store,          \* the committed database
    conn,           \* the connection bound to the name conn
    sess,           \* the Session objects, by name
    session,        \* the Session object the name session is bound to
    ent,            \* the mapped instances created so far
    result,         \* the Result bound to the name result: rows not yet fetched
    seen,           \* line of a for loop -> the rows its body ran for
    some_squidward  \* the value of the name some_squidward

vars == <<pc, status, scope, store, conn, sess, session, ent, result, seen, some_squidward>>

----------------------------------------------------------------------------
(* Values *)

None == <<>>
Some(k) == <<k>>

EmptyDb == [tables |-> {}, some_table |-> <<>>, user_account |-> {}, address |-> {}]

ClosedConn == [open |-> FALSE, work |-> EmptyDb]

FreshSession == [made |-> FALSE, intxn |-> FALSE, work |-> EmptyDb,
                 new |-> {}, dirty |-> {}, deleted |-> {}, identity |-> {}]

SessionNames == {"s1", "s2"}

XY(x, y) == [x |-> x, y |-> y]

UserRow(id, name, fullname) == [id |-> id, name |-> name, fullname |-> fullname]

AddressRow(id, user_id, email) == [id |-> id, user_id |-> user_id, email_address |-> email]

----------------------------------------------------------------------------
(* The script: its database statements, in source order. *)

RowsLine23 == <<XY(1, 1), XY(2, 4)>>
RowsLine31 == <<XY(6, 8), XY(9, 10)>>
RowsLine67 == <<XY(11, 12), XY(13, 14)>>
UsersLine221 == <<[name |-> "spongebob", fullname |-> "Spongebob Squarepants"]>>
UsersLine234 == <<[name |-> "sandy", fullname |-> "Sandy Cheeks"],
                  [name |-> "patrick", fullname |-> "Patrick Star"]>>
ParamLine58 == 2
ParamLine84 == 6
KeyLine301 == 4

St(op, line, arg) == [op |-> op, line |-> line, arg |-> arg]

RawSql == <<
    St("connect", 19, None),
    St("ddl", 20, "some_table"),
    St("insert_xy", 21, RowsLine23),
    St("conn_commit", 25, None),
    St("connect_exit", 25, None),
    St("begin", 28, None),
    St("insert_xy", 29, RowsLine31),
    St("begin_exit", 32, None),
    St("connect", 35, None),
    St("select_xy", 36, [where |-> FALSE, y |-> 0, ordered |-> FALSE]),
    St("for", 38, "rows"),
    St("for", 42, "rows"),
    St("for", 46, "rows"),
    St("for", 50, "mappings"),
    St("connect_exit", 52, None),
    St("connect", 57, None),
    St("select_xy", 58, [where |-> TRUE, y |-> ParamLine58, ordered |-> FALSE]),
    St("for", 59, "rows"),
    St("connect_exit", 60, None),
    St("connect", 64, None),
    St("insert_xy", 65, RowsLine67),
    St("conn_commit", 69, None),
    St("connect_exit", 69, None) >>

OrmQuery == <<
    St("session_new", 83, [name |-> "s1", with |-> TRUE]),
    St("session_select_xy", 84, [where |-> TRUE, y |-> ParamLine84, ordered |-> TRUE]),
    St("for", 85, "rows"),
    St("session_exit", 86, None) >>

Schema == <<
    St("create_all", 124, {"user_account", "address"}),
    St("create_all", 177, {}),
    St("create_all", 181, {"user_account", "address"}) >>

CoreInsert == <<
    St("connect", 224, None),
    St("insert_user", 225, UsersLine221),
    St("conn_commit", 226, None),
    St("connect_exit", 226, None),
    St("connect", 230, None),
    St("insert_user", 231, UsersLine234),
    St("conn_commit", 238, None),
    St("connect_exit", 238, None) >>

OrmSelect == <<
    St("session_select_user", 255, "execute"),
    St("session_select_user", 263, "scalars") >>

OrmCrud == <<
    St("new_entity", 272, [inst |-> "squidward", cls |-> "User", name |-> "squidward",
                           fullname |-> "Squidward Tentacles", email |-> ""]),
    St("session_new", 277, [name |-> "s2", with |-> FALSE]),
    St("add", 280, "squidward"),
    St("commit", 283, None),
    St("get", 301, KeyLine301),
    St("set_fullname", 305, "Sandy Squirrel"),
    St("commit", 306, None),
    St("delete", 310, None),
    St("commit", 311, None),
    St("rollback", 317, None),
    St("close", 322, None) >>

\* OrmRelation with the session.add(u1) of line 376 in effect.
OrmRelationWithAdd == <<
    St("new_entity", 360, [inst |-> "u1", cls |-> "User", name |-> "pkrabs",
                           fullname |-> "Pearl Krabs", email |-> ""]),
    St("new_entity", 365, [inst |-> "a1", cls |-> "Address", name |-> "", fullname |-> "",
                           email |-> "pearl.krabs@gmail.com"]),
    St("append", 366, [owner |-> "u1", child |-> "a1"]),
    St("add", 376, "u1"),
    St("commit", 383, None) >>

\* Line 376, session.add(u1), is commented out in the source: no statement.
OrmRelation == <<
    St("new_entity", 360, [inst |-> "u1", cls |-> "User", name |-> "pkrabs",
                           fullname |-> "Pearl Krabs", email |-> ""]),
    St("new_entity", 365, [inst |-> "a1", cls |-> "Address", name |-> "", fullname |-> "",
                           email |-> "pearl.krabs@gmail.com"]),
    St("append", 366, [owner |-> "u1", child |-> "a1"]),
    St("commit", 383, None) >>

Prog == RawSql \o OrmQuery \o Schema \o CoreInsert \o OrmSelect \o OrmCrud \o OrmRelation

Cur == Prog[pc]

Running == status = "running" /\ pc <= Len(Prog)

At(op) == Running /\ Cur.op = op

\* Control after the statement at pc completes normally.
Advance ==
    /\ pc' = pc + 1
    /\ status' = IF pc + 1 > Len(Prog) THEN "done" ELSE "running"

----------------------------------------------------------------------------
(* The database statements the script issues, as functions on a database. *)

\* CREATE TABLE, and create_all's CREATE TABLE of the tables not yet there.
CreateTables(db, names) == [db EXCEPT !.tables = @ \cup names]

\* INSERT INTO some_table (x, y) VALUES (:x, :y), one execution per parameter set.
InsertXY(db, rows) == [db EXCEPT !.some_table = @ \o rows]

\* Where with the comparison made on the wrong column.
WhereWrongColumn(r, q) == (~q.where) \/ r.x > q.y

\* WHERE y > :y of the SELECTs at lines 58 and 82; line 36 has no WHERE.
Where(r, q) == (~q.where) \/ r.y > q.y

RECURSIVE Filter(_, _)
Filter(rows, q) ==
    IF rows = <<>> THEN <<>>
    ELSE (IF Where(Head(rows), q) THEN <<Head(rows)>> ELSE <<>>) \o Filter(Tail(rows), q)

\* ORDER BY x, y
Before(a, b) == a.x < b.x \/ (a.x = b.x /\ a.y <= b.y)

RECURSIVE InsertSorted(_, _)
InsertSorted(r, rows) ==
    IF rows = <<>> THEN <<r>>
    ELSE IF Before(r, Head(rows)) THEN <<r>> \o rows
    ELSE <<Head(rows)>> \o InsertSorted(r, Tail(rows))

RECURSIVE OrderByXY(_)
OrderByXY(rows) ==
    IF rows = <<>> THEN <<>> ELSE InsertSorted(Head(rows), OrderByXY(Tail(rows)))

\* SELECT x, y FROM some_table [WHERE y > :y] [ORDER BY x, y]
SelectXY(db, q) ==
    IF q.ordered THEN OrderByXY(Filter(db.some_table, q)) ELSE Filter(db.some_table, q)

Max(S) == CHOOSE m \in S : \A n \in S : n <= m
Min(S) == CHOOSE m \in S : \A n \in S : m <= n

\* NextKey without the increment: the greatest key is handed out again.
NextKeyNoIncrement(rows) == IF rows = {} THEN 1 ELSE Max({r.id : r \in rows})

\* The key an INTEGER PRIMARY KEY column gets when the INSERT gives none.
NextKey(rows) == IF rows = {} THEN 1 ELSE Max({r.id : r \in rows}) + 1

\* insert(user_table) with a list of parameter sets, lines 221-238.
RECURSIVE InsertUsers(_, _)
InsertUsers(db, users) ==
    IF users = <<>> THEN db
    ELSE InsertUsers(
            [db EXCEPT !.user_account =
                @ \cup {UserRow(NextKey(@), Head(users).name, Head(users).fullname)}],
            Tail(users))

----------------------------------------------------------------------------
(* Connections: engine.connect() and engine.begin() blocks, lines 19-69, 224-238. *)

OpenConn == [open |-> TRUE, work |-> store]

\* with engine.connect() as conn:
ConnectEnter ==
    /\ At("connect")
    /\ conn' = OpenConn
    /\ scope' = "connect"
    /\ Advance
    /\ UNCHANGED <<store, sess, session, ent, result, seen, some_squidward>>

\* with engine.begin() as conn:
BeginEnter ==
    /\ At("begin")
    /\ conn' = OpenConn
    /\ scope' = "begin"
    /\ Advance
    /\ UNCHANGED <<store, sess, session, ent, result, seen, some_squidward>>

\* conn.execute(text("CREATE TABLE some_table (x int, y int)")), line 20.  The
\* sqlite driver may run DDL outside the transaction: both outcomes are kept.
ConnExecuteDDL ==
    /\ At("ddl")
    /\ conn.open
    /\ \E autocommitted \in BOOLEAN :
        /\ conn' = [conn EXCEPT !.work = CreateTables(@, {Cur.arg})]
        /\ store' = IF autocommitted THEN CreateTables(store, {Cur.arg}) ELSE store
    /\ Advance
    /\ UNCHANGED <<scope, sess, session, ent, result, seen, some_squidward>>

\* conn.execute(text("INSERT INTO some_table ..."), [...]), lines 21, 29, 65.
ConnExecuteInsertXY ==
    /\ At("insert_xy")
    /\ conn.open
    /\ "some_table" \in conn.work.tables
    /\ conn' = [conn EXCEPT !.work = InsertXY(@, Cur.arg)]
    /\ Advance
    /\ UNCHANGED <<scope, store, sess, session, ent, result, seen, some_squidward>>

\* conn.execute(insert(user_table), [...]), lines 225, 231.
ConnExecuteInsertUser ==
    /\ At("insert_user")
    /\ conn.open
    /\ "user_account" \in conn.work.tables
    /\ conn' = [conn EXCEPT !.work = InsertUsers(@, Cur.arg)]
    /\ Advance
    /\ UNCHANGED <<scope, store, sess, session, ent, result, seen, some_squidward>>

\* result = conn.execute(text("SELECT x, y FROM some_table ...")), lines 36, 58.
ConnExecuteSelect ==
    /\ At("select_xy")
    /\ conn.open
    /\ "some_table" \in conn.work.tables
    /\ result' = SelectXY(conn.work, Cur.arg)
    /\ Advance
    /\ UNCHANGED <<scope, store, conn, sess, session, ent, seen, some_squidward>>

\* The rows the loop at a line has run its body for, so far.
SeenAt(line) == IF line \in DOMAIN seen THEN seen[line] ELSE <<>>

\* for row in result: ... (and for dict_row in result.mappings()): one turn of
\* the loop.  The result is a cursor: the turn fetches its next row, and the
\* row is gone from the result.
ForNext ==
    /\ At("for")
    /\ result # <<>>
    /\ seen' = (Cur.line :> Append(SeenAt(Cur.line), Head(result))) @@ seen
    /\ result' = Tail(result)
    /\ UNCHANGED <<pc, status, scope, store, conn, sess, session, ent, some_squidward>>

\* The loop ends when the result has no row left.
ForEnd ==
    /\ At("for")
    /\ result = <<>>
    /\ seen' = (Cur.line :> SeenAt(Cur.line)) @@ seen
    /\ Advance
    /\ UNCHANGED <<scope, store, conn, sess, session, ent, result, some_squidward>>

\* conn.commit(), lines 25, 69, 226, 238.
ConnCommit ==
    /\ At("conn_commit")
    /\ conn.open
    /\ store' = conn.work
    /\ Advance
    /\ UNCHANGED <<scope, conn, sess, session, ent, result, seen, some_squidward>>

\* Leaving an engine.connect() block: what was not committed is rolled back
\* and the connection goes back to the pool.
ConnectExit ==
    /\ At("connect_exit")
    /\ conn' = ClosedConn
    /\ scope' = "none"
    /\ Advance
    /\ UNCHANGED <<store, sess, session, ent, result, seen, some_squidward>>

\* Leaving an engine.begin() block without an exception: commit, then release.
BeginExit ==
    /\ At("begin_exit")
    /\ conn.open
    /\ store' = conn.work
    /\ conn' = ClosedConn
    /\ scope' = "none"
    /\ Advance
    /\ UNCHANGED <<sess, session, ent, result, seen, some_squidward>>

\* metadata.create_all(engine), lines 124, 177, 181: commits by itself.
CreateAll ==
    /\ At("create_all")
    /\ store' = CreateTables(store, Cur.arg)
    /\ Advance
    /\ UNCHANGED <<scope, conn, sess, session, ent, result, seen, some_squidward>>

----------------------------------------------------------------------------
(* The unit of work: Session, lines 83-86 and 255-383. *)

NewInstance(a) ==
    [cls |-> a.cls, id |-> None, name |-> a.name, fullname |-> a.fullname,
     email |-> a.email, user_id |-> None, owner |-> None, st |-> "transient", sid |-> "none"]

\* The Address instances in u.addresses (the other side is Address.user).
Addresses(e, u) == {a \in DOMAIN e : e[a].owner = Some(u)}

\* A session begins its transaction with the first statement it runs.
Autobegin(s) == IF s.intxn THEN s ELSE [s EXCEPT !.intxn = TRUE, !.work = store]

\* save-update cascade: adding an instance adds the transient instances it refers to.
Cascade(e, i) == {i} \cup {a \in Addresses(e, i) : e[a].st = "transient"}

\* The flush: INSERTs of new User rows, then of new Address rows with the
\* owner's key as user_id, then UPDATEs of dirty rows, then DELETEs.  A flush
\* state is the database together with the instances, whose keys it sets.
RECURSIVE FlushNewUsers(_, _)
FlushNewUsers(f, todo) ==
    IF todo = {} THEN f
    ELSE LET i == CHOOSE x \in todo : TRUE
             k == NextKey(f.db.user_account)
         IN  FlushNewUsers(
                [db |-> [f.db EXCEPT !.user_account =
                            @ \cup {UserRow(k, f.e[i].name, f.e[i].fullname)}],
                 e  |-> [f.e EXCEPT ![i].id = Some(k)]],
                todo \ {i})

OwnerKey(e, a) == IF e[a].owner = None THEN None ELSE e[e[a].owner[1]].id

RECURSIVE FlushNewAddresses(_, _)
FlushNewAddresses(f, todo) ==
    IF todo = {} THEN f
    ELSE LET a == CHOOSE x \in todo : TRUE
             k == NextKey(f.db.address)
             u == OwnerKey(f.e, a)
         IN  FlushNewAddresses(
                [db |-> [f.db EXCEPT !.address =
                            @ \cup {AddressRow(k, u, f.e[a].email)}],
                 e  |-> [f.e EXCEPT ![a].id = Some(k), ![a].user_id = u]],
                todo \ {a})

\* UpdateRows without its WHERE clause: every row takes the dirty instance's values.
UpdateRowsNoWhere(rows, e, dirty) ==
    IF dirty = {} THEN rows
    ELSE LET i == CHOOSE x \in dirty : TRUE
         IN  {UserRow(r.id, e[i].name, e[i].fullname) : r \in rows}

\* UPDATE user_account SET name=?, fullname=? WHERE user_account.id = ?
UpdateRows(rows, e, dirty) ==
    {IF \E i \in dirty : e[i].id = Some(r.id)
        THEN LET i == CHOOSE x \in dirty : e[x].id = Some(r.id)
             IN  UserRow(r.id, e[i].name, e[i].fullname)
        ELSE r : r \in rows}

\* DELETE FROM user_account WHERE user_account.id = ?
DeleteRows(rows, e, deleted) == {r \in rows : ~\E i \in deleted : e[i].id = Some(r.id)}

OfClass(e, S, cls) == {i \in S : e[i].cls = cls}

Flush(s, e) ==
    LET f0 == [db |-> s.work, e |-> e]
        f1 == FlushNewUsers(f0, OfClass(e, s.new, "User"))
        f2 == FlushNewAddresses(f1, OfClass(e, s.new, "Address"))
        d1 == UpdateRows(f2.db.user_account, f2.e, OfClass(e, s.dirty, "User"))
        d2 == DeleteRows(d1, f2.e, OfClass(e, s.deleted, "User"))
    IN  [db |-> [f2.db EXCEPT !.user_account = d2], e |-> f2.e]

\* address.user_id is NOT NULL (line 117) and the tables must exist.
Flushable(s, e) ==
    /\ \A a \in OfClass(e, s.new, "Address") :
          e[a].owner # None /\ (e[e[a].owner[1]].id # None \/ e[a].owner[1] \in s.new)
    /\ (s.new \cup s.dirty \cup s.deleted) # {} => {"user_account", "address"} \subseteq s.work.tables

\* What commit leaves in the session: new instances become persistent and
\* enter the identity map under their key, deleted ones leave it.
CommitSession(s, e) ==
    [s EXCEPT !.intxn = FALSE, !.work = EmptyDb, !.new = {}, !.dirty = {}, !.deleted = {},
              !.identity = {t \in @ : t[3] \notin s.deleted}
                           \cup {<<e[i].cls, e[i].id[1], i>> : i \in s.new}]

CommitInstances(s, e) ==
    [i \in DOMAIN e |->
        IF i \in s.deleted THEN [e[i] EXCEPT !.st = "detached", !.sid = "none"]
        ELSE IF i \in s.new THEN [e[i] EXCEPT !.st = "persistent"]
        ELSE e[i]]

\* The persisted state of instance i, read back from db.
Reloaded(db, x) ==
    IF x.cls = "User" /\ \E r \in db.user_account : Some(r.id) = x.id
    THEN LET r == CHOOSE r \in db.user_account : Some(r.id) = x.id
         IN  [x EXCEPT !.name = r.name, !.fullname = r.fullname]
    ELSE x

\* rollback(): the transaction's work is dropped, pending instances leave the
\* session, changed and deleted ones show their persisted state again.
RollbackSession(s) ==
    [s EXCEPT !.intxn = FALSE, !.work = EmptyDb, !.new = {}, !.dirty = {}, !.deleted = {}]

RollbackInstances(s, e, db) ==
    [i \in DOMAIN e |->
        IF i \in s.new THEN [e[i] EXCEPT !.st = "transient", !.sid = "none"]
        ELSE IF i \in s.dirty \cup s.deleted THEN Reloaded(db, e[i])
        ELSE e[i]]

\* close(): rollback, then every instance of the session is detached.
CloseSession(s) == [RollbackSession(s) EXCEPT !.identity = {}]

CloseInstances(s, n, e, db) ==
    LET r == RollbackInstances(s, e, db)
    IN  [i \in DOMAIN e |->
            IF r[i].sid = n THEN [r[i] EXCEPT !.st = "detached", !.sid = "none"] ELSE r[i]]

\* The instance a session hands out for the row of key k: the one its identity
\* map holds for (User, k), else a new one loaded from the row.
Loaded(k) == IF k = 1 THEN "row1" ELSE IF k = 2 THEN "row2" ELSE IF k = 3 THEN "row3"
             ELSE IF k = 4 THEN "row4" ELSE "row5"

Tracked(s, k) == {t[3] : t \in {t \in s.identity : t[1] = "User" /\ t[2] = k}}

\* InstanceFor without the look in the identity map: every fetch loads anew.
InstanceForAlwaysLoads(s, k) == Loaded(k)

InstanceFor(s, k) == IF Tracked(s, k) # {} THEN CHOOSE i \in Tracked(s, k) : TRUE ELSE Loaded(k)

LoadInstance(e, n, row, i) ==
    IF i \in DOMAIN e THEN e
    ELSE (i :> [cls |-> "User", id |-> Some(row.id), name |-> row.name,
                fullname |-> row.fullname, email |-> "", user_id |-> None,
                owner |-> None, st |-> "persistent", sid |-> n]) @@ e

----------------------------------------------------------------------------
(* Session statements of the script. *)

S == sess[session]

\* Session(engine), lines 83 (as a with-block) and 277.
SessionNew ==
    /\ At("session_new")
    /\ sess' = [sess EXCEPT ![Cur.arg.name] = [FreshSession EXCEPT !.made = TRUE]]
    /\ session' = Cur.arg.name
    /\ scope' = IF Cur.arg.with THEN "session" ELSE scope
    /\ Advance
    /\ UNCHANGED <<store, conn, ent, result, seen, some_squidward>>

\* result = session.execute(stmt, {"y": 6}), line 84.
SessionExecuteSelect ==
    /\ At("session_select_xy")
    /\ session # "none"
    /\ "some_table" \in Autobegin(S).work.tables
    /\ sess' = [sess EXCEPT ![session] = Autobegin(S)]
    /\ result' = SelectXY(Autobegin(S).work, Cur.arg)
    /\ Advance
    /\ UNCHANGED <<scope, store, conn, session, ent, seen, some_squidward>>

\* Leaving the with Session(engine) block, line 86: close().
SessionExit ==
    /\ At("session_exit")
    /\ sess' = [sess EXCEPT ![session] = CloseSession(S)]
    /\ ent' = CloseInstances(S, session, ent, store)
    /\ scope' = "none"
    /\ Advance
    /\ UNCHANGED <<store, conn, session, result, seen, some_squidward>>

\* session.execute(select(User)).first() and session.scalars(select(User)).first(),
\* lines 255 and 263: the instance for the first row of user_account.
SessionSelectUser ==
    /\ At("session_select_user")
    /\ session # "none"
    /\ LET s == Autobegin(S)
           rows == s.work.user_account
       IN  /\ "user_account" \in s.work.tables
           /\ IF rows = {}
              THEN sess' = [sess EXCEPT ![session] = s] /\ ent' = ent
              ELSE LET row == CHOOSE r \in rows : r.id = Min({q.id : q \in rows})
                       i == InstanceFor(s, row.id)
                   IN  /\ sess' = [sess EXCEPT ![session] =
                                    [s EXCEPT !.identity = @ \cup {<<"User", row.id, i>>}]]
                       /\ ent' = LoadInstance(ent, session, row, i)
    /\ Advance
    /\ UNCHANGED <<scope, store, conn, session, result, seen, some_squidward>>

\* User(...) and Address(...), lines 272, 360, 365.
NewEntity ==
    /\ At("new_entity")
    /\ ent' = (Cur.arg.inst :> NewInstance(Cur.arg)) @@ ent
    /\ Advance
    /\ UNCHANGED <<scope, store, conn, sess, session, result, seen, some_squidward>>

\* session.add(squidward), line 280.
SessionAdd ==
    /\ At("add")
    /\ session # "none"
    /\ LET c == Cascade(ent, Cur.arg)
       IN  /\ sess' = [sess EXCEPT ![session].new = @ \cup c]
           /\ ent' = [i \in DOMAIN ent |->
                        IF i \in c THEN [ent[i] EXCEPT !.st = "pending", !.sid = session]
                        ELSE ent[i]]
    /\ Advance
    /\ UNCHANGED <<scope, store, conn, session, result, seen, some_squidward>>

\* session.commit(), lines 283, 306, 311, 383: flush, then COMMIT.
SessionCommit ==
    /\ At("commit")
    /\ session # "none"
    /\ LET s == Autobegin(S)
           f == Flush(s, ent)
       IN  /\ Flushable(s, ent)
           /\ store' = f.db
           /\ sess' = [sess EXCEPT ![session] = CommitSession(s, f.e)]
           /\ ent' = CommitInstances(s, f.e)
    /\ Advance
    /\ UNCHANGED <<scope, conn, session, result, seen, some_squidward>>

\* some_squidward = session.get(User, 4), line 301.
SessionGet ==
    /\ At("get")
    /\ session # "none"
    /\ LET s == Autobegin(S)
           k == Cur.arg
           rows == {r \in s.work.user_account : r.id = k}
       IN  /\ "user_account" \in s.work.tables
           /\ IF rows = {}
              THEN /\ some_squidward' = None
                   /\ sess' = [sess EXCEPT ![session] = s]
                   /\ ent' = ent
              ELSE LET row == CHOOSE r \in rows : TRUE
                       i == InstanceFor(s, k)
                   IN  /\ some_squidward' = Some(i)
                       /\ sess' = [sess EXCEPT ![session] =
                                    [s EXCEPT !.identity = @ \cup {<<"User", k, i>>}]]
                       /\ ent' = LoadInstance(ent, session, row, i)
    /\ Advance
    /\ UNCHANGED <<scope, store, conn, session, result, seen>>

\* some_squidward.fullname = "Sandy Squirrel", line 305.
SetFullname ==
    /\ At("set_fullname")
    /\ some_squidward # None
    /\ LET i == some_squidward[1]
       IN  /\ ent' = [ent EXCEPT ![i].fullname = Cur.arg]
           /\ sess' = IF ent[i].st = "persistent"
                      THEN [sess EXCEPT ![ent[i].sid].dirty = @ \cup {i}]
                      ELSE sess
    /\ Advance
    /\ UNCHANGED <<scope, store, conn, session, result, seen, some_squidward>>

\* session.delete(some_squidward), line 310.
SessionDelete ==
    /\ At("delete")
    /\ session # "none"
    /\ some_squidward # None
    /\ LET i == some_squidward[1]
       IN  /\ ent[i].st = "persistent" /\ ent[i].sid = session
           /\ sess' = [sess EXCEPT ![session].deleted = @ \cup {i}]
    /\ Advance
    /\ UNCHANGED <<scope, store, conn, session, ent, result, seen, some_squidward>>

\* session.rollback(), line 317.
SessionRollback ==
    /\ At("rollback")
    /\ session # "none"
    /\ sess' = [sess EXCEPT ![session] = RollbackSession(S)]
    /\ ent' = RollbackInstances(S, ent, store)
    /\ Advance
    /\ UNCHANGED <<scope, store, conn, session, result, seen, some_squidward>>

\* session.close(), line 322.
SessionClose ==
    /\ At("close")
    /\ session # "none"
    /\ sess' = [sess EXCEPT ![session] = CloseSession(S)]
    /\ ent' = CloseInstances(S, session, ent, store)
    /\ Advance
    /\ UNCHANGED <<scope, store, conn, session, result, seen, some_squidward>>

\* u1.addresses.append(a1), line 366; a1.user becomes u1, and a1 follows u1
\* into u1's session if u1 is in one.
AppendAddress ==
    /\ At("append")
    /\ LET u == Cur.arg.owner
           a == Cur.arg.child
           n == ent[u].sid
       IN  IF n = "none"
           THEN /\ ent' = [ent EXCEPT ![a].owner = Some(u)]
                /\ sess' = sess
           ELSE /\ ent' = [ent EXCEPT ![a].owner = Some(u), ![a].st = "pending", ![a].sid = n]
                /\ sess' = [sess EXCEPT ![n].new = @ \cup {a}]
    /\ Advance
    /\ UNCHANGED <<scope, store, conn, session, result, seen, some_squidward>>

----------------------------------------------------------------------------
(* Exceptions. *)

\* The statements that talk to the database and so may raise.
Raising == {"connect", "begin", "ddl", "insert_xy", "insert_user", "select_xy", "for",
            "conn_commit", "begin_exit", "create_all", "session_select_xy",
            "session_select_user", "commit", "get", "rollback"}

\* The rows an executemany had inserted when its n-th execution raised.
Partial(db, st, n) ==
    IF st.op = "insert_xy" THEN InsertXY(db, SubSeq(st.arg, 1, n))
    ELSE IF st.op = "insert_user" THEN InsertUsers(db, SubSeq(st.arg, 1, n))
    ELSE db

\* ExitOnException committing, as a normal exit of a begin block does.
ExitOnExceptionCommits(kind, committed, work) == IF kind = "begin" THEN work ELSE committed

\* What the exit of a connection block leaves committed when an exception
\* leaves it, the transaction holding work: a rollback, so the store as it was.
ExitOnException(kind, committed, work) == committed

\* The statement at pc raises.  The exception leaves the enclosing with-block,
\* whose exit rolls back and releases, and ends the script; outside any block
\* nothing is released.
Raise ==
    /\ Running
    /\ Cur.op \in Raising \/ (Cur.op \in {"set_fullname", "delete"} /\ some_squidward = None)
    /\ status' = "aborted"
    /\ scope' = "none"
    /\ IF scope \in {"connect", "begin"}
       THEN /\ \E n \in 0..(IF Cur.op \in {"insert_xy", "insert_user"} THEN Len(Cur.arg) - 1 ELSE 0) :
                 store' = ExitOnException(scope, store, Partial(conn.work, Cur, n))
            /\ conn' = ClosedConn
            /\ UNCHANGED <<sess, ent>>
       ELSE IF scope = "session"
       THEN /\ sess' = [sess EXCEPT ![session] = CloseSession(S)]
            /\ ent' = CloseInstances(S, session, ent, store)
            /\ UNCHANGED <<store, conn>>
       ELSE UNCHANGED <<store, conn, sess, ent>>
    /\ UNCHANGED <<pc, session, result, seen, some_squidward>>

----------------------------------------------------------------------------
(* The script as a whole. *)

\* After line 13: an empty in-memory database, nothing bound yet.
Init ==
    /\ pc = 1
    /\ status = "running"
    /\ scope = "none"
    /\ store = EmptyDb
    /\ conn = ClosedConn
    /\ sess = [n \in SessionNames |-> FreshSession]
    /\ session = "none"
    /\ ent = <<>>
    /\ result = <<>>
    /\ seen = <<>>
    /\ some_squidward = None

Next ==
    \/ ConnectEnter
    \/ BeginEnter
    \/ ConnExecuteDDL
    \/ ConnExecuteInsertXY
    \/ ConnExecuteInsertUser
    \/ ConnExecuteSelect
    \/ ForNext
    \/ ForEnd
    \/ ConnCommit
    \/ ConnectExit
    \/ BeginExit
    \/ CreateAll
    \/ SessionNew
    \/ SessionExecuteSelect
    \/ SessionExit
    \/ SessionSelectUser
    \/ NewEntity
    \/ SessionAdd
    \/ SessionCommit
    \/ SessionGet
    \/ SetFullname
    \/ SessionDelete
    \/ SessionRollback
    \/ SessionClose
    \/ AppendAddress
    \/ Raise

Spec == Init /\ [][Next]_vars

----------------------------------------------------------------------------
(* Properties. *)

\* The position in Prog of the statement of kind op at a source line, and
\* whether the script has completed it.
Idx(op, line) == CHOOSE i \in 1..Len(Prog) : Prog[i].op = op /\ Prog[i].line = line
Past(op, line) == pc > Idx(op, line)
Completes == Running /\ pc' = pc + 1
Rows(seq) == {seq[i] : i \in 1..Len(seq)}
UserIds(db) == {r.id : r \in db.user_account}
WithKey(db, k) == {r \in db.user_account : r.id = k}

\* C1: a User's key is null from construction and while it is pending; once
\* it is persistent (added, then committed) the key is a natural number that
\* identifies exactly one row of user_account, and squidward's key after the
\* commit of line 283 is the key line 301 looks up.
C1_KeyAssignedOnCommit ==
    /\ \A i \in DOMAIN ent : ent[i].st \in {"transient", "pending"} => ent[i].id = None
    /\ \A i \in DOMAIN ent :
          (ent[i].cls = "User" /\ ent[i].st = "persistent") =>
              /\ ent[i].id # None
              /\ ent[i].id[1] \in Nat
              /\ Cardinality(WithKey(store, ent[i].id[1])) = 1
    /\ Past("commit", 283) => ent["squidward"].id = Some(KeyLine301)

C1_Witness ==
    /\ Past("commit", 283)
    /\ ent["squidward"].st = "persistent"
    /\ ent["squidward"].id = Some(4)
    /\ \E r \in store.user_account : r.id = 4 /\ r.name = "squidward"

\* C2: when the script has run to its end, the address table holds a row for
\* a1 whose user_id is the key of an existing user_account row for u1.
C2_AddressPersistedWithOwnerKey ==
    status = "done" =>
        \E a \in store.address :
            /\ a.email_address = "pearl.krabs@gmail.com"
            /\ \E u \in store.user_account : a.user_id = Some(u.id) /\ u.name = "pkrabs"

\* C4: the commit of line 306 changes the fullname of the row whose key is
\* the fetched instance's, and no other row; the commit of line 311 removes
\* that row and leaves every other row as it was.
C4_Step ==
    /\ (At("commit") /\ Cur.line = 306 /\ Completes) =>
          /\ some_squidward # None
          /\ LET k == ent[some_squidward[1]].id[1]
             IN  /\ WithKey(store, k) # {}
                 /\ store'.user_account =
                        {IF r.id = k THEN UserRow(k, r.name, "Sandy Squirrel") ELSE r :
                            r \in store.user_account}
    /\ (At("commit") /\ Cur.line = 311 /\ Completes) =>
          /\ some_squidward # None
          /\ LET k == ent[some_squidward[1]].id[1]
             IN  /\ WithKey(store, k) # {}
                 /\ store'.user_account = store.user_account \ WithKey(store, k)

C4_UpdateThenDeleteOneRow == [][C4_Step]_vars

C4_Witness ==
    /\ Past("commit", 311)
    /\ WithKey(store, KeyLine301) = {}
    /\ UserIds(store) = {1, 2, 3}

\* C5: the loop of line 59 is handed exactly the committed rows with y > 2,
\* the loop of line 85 exactly the committed rows with y > 6, in the order of
\* x then y; the rows (11,12) and (13,14), committed at line 69, are in the
\* second result and not in the first.
Sorted(seq) == \A i \in 1..Len(seq) : \A j \in i..Len(seq) : Before(seq[i], seq[j])
ExactlyWhere(seq, db, y) ==
    /\ Rows(seq) = {r \in Rows(db.some_table) : r.y > y}
    /\ Len(seq) = Cardinality(Rows(seq))

C5_FilteredOrderedSelect ==
    /\ (Past("for", 59) /\ ~Past("conn_commit", 69)) =>
          ExactlyWhere(seen[59], store, ParamLine58)
    /\ Past("for", 59) => Rows(RowsLine67) \cap Rows(seen[59]) = {}
    /\ Past("for", 85) =>
          /\ ExactlyWhere(seen[85], store, ParamLine84)
          /\ Sorted(seen[85])
          /\ Rows(RowsLine67) \subseteq Rows(seen[85])

C5_Witness ==
    /\ Past("for", 85)
    /\ seen[59] = <<XY(2, 4), XY(6, 8), XY(9, 10)>>
    /\ seen[85] = <<XY(6, 8), XY(9, 10), XY(11, 12), XY(13, 14)>>

\* C6: an INSERT executed on a connection, and leaving a connect block,
\* change nothing committed; a begin block that ends normally commits all
\* its statements; a step that raises inside a connection block commits
\* nothing.  So the rows of line 23 are committed only once line 25 has run,
\* and the rows of line 31 are committed all (the block of line 28 left
\* normally) or none.
C6_Step ==
    /\ (Running /\ Cur.op \in {"insert_xy", "insert_user", "connect_exit"}) => store' = store
    /\ (At("begin_exit") /\ Completes) => store' = conn.work
    /\ (Running /\ scope \in {"connect", "begin"} /\ status' = "aborted") => store' = store

C6_State ==
    /\ Rows(RowsLine23) \cap Rows(store.some_table) # {} => Past("conn_commit", 25)
    /\ Rows(RowsLine67) \cap Rows(store.some_table) # {} => Past("conn_commit", 69)
    /\ IF Past("begin_exit", 32)
       THEN Rows(RowsLine31) \subseteq Rows(store.some_table)
       ELSE Rows(RowsLine31) \cap Rows(store.some_table) = {}

C6_NoEffectUntilCommit == []C6_State /\ [][C6_Step]_vars

C6_Witness ==
    /\ status = "aborted"
    /\ Cur.line = 29
    /\ store.some_table = RowsLine23
    /\ ~conn.open

\* C7: when the script has ended, normally or by an exception, no connection
\* is open and no session holds a transaction.
Held == {n \in SessionNames : sess[n].intxn}

C7_ReleasedAtEnd == status \in {"done", "aborted"} => (~conn.open /\ Held = {})

\* C8: close() commits nothing and leaves the session with no transaction,
\* empty new, dirty and deleted sets and an empty identity map; u1 and a1,
\* created after the close of line 322 and never added, stay outside the
\* session, and the commit of line 383 writes nothing.
Empty(s) == ~s.intxn /\ s.new = {} /\ s.dirty = {} /\ s.deleted = {} /\ s.identity = {}

C8_Step ==
    /\ (Running /\ Cur.op \in {"close", "session_exit"} /\ Completes) =>
          /\ store' = store
          /\ Empty(sess'[session])
          /\ \A i \in DOMAIN ent' : ent'[i].sid # session
    /\ (At("commit") /\ Cur.line = 383 /\ Completes) =>
          /\ store' = store
          /\ Empty(sess'[session])
          /\ \A i \in {"u1", "a1"} : ent'[i].st = "transient" /\ ent'[i].id = None

C9_IdentityConsistency ==
    /\ \A n \in SessionNames : \A t, u \in sess[n].identity :
          (t[1] = u[1] /\ t[2] = u[2]) => t[3] = u[3]
    /\ Past("get", 301) => some_squidward = Some("squidward")
    /\ Past("set_fullname", 305) => ent["squidward"].fullname = "Sandy Squirrel"
    /\ (Past("delete", 310) /\ ~Past("commit", 311)) => "squidward" \in sess["s2"].deleted

C9_Witness ==
    /\ Past("delete", 310) /\ ~Past("commit", 311)
    /\ some_squidward = Some("squidward")
    /\ <<"User", 4, "squidward">> \in sess["s2"].identity
    /\ "squidward" \in sess["s2"].deleted

\* C10: each of the four loops of lines 38, 42, 46 and 50, once it has ended,
\* has run for every row of some_table committed at that point.
C10_EveryLoopSeesEveryRow ==
    \A line \in {38, 42, 46, 50} : Past("for", line) => seen[line] = store.some_table

====
